---------------------------- MODULE Spec2Model ----------------------------
(***************************************************************************)
(* A model of the card-draw engine of jjanczyszyn/cards                    *)
(* (src/src/lib/i18n.ts: mulberry32, seededShuffle, createDrawState,       *)
(* drawNext, filterCards), of the CardDraw view that drives it             *)
(* (src/src/components/CardDraw.tsx) and of the App component that loads   *)
(* the index and the decks (src/unnamed/part_000).                         *)
(*                                                                         *)
(* JavaScript arrays and objects are references: arrays live in `heap`     *)
(* (a sequence of arrays, a reference is an index into it) and DrawState   *)
(* objects live in `objs`, so aliasing and in-place mutation are visible.  *)
(* 32-bit words are kept as two 16-bit halves [hi, lo], because every      *)
(* intermediate value has to stay below 2^31.                              *)
(***************************************************************************)
EXTENDS Integers, Sequences, FiniteSets, TLC

(***************************************************************************)
(* Bounds of the model.                                                    *)
(***************************************************************************)
\* Longest card list (with colors and symbols) handed to the library and
\* to the CardDraw view.
MaxCards == 3
\* Longest makeCards(n) list a DrawState is built from.
MaxDeck == 4
\* drawNext calls made on an instance after it is exhausted.
MaxExtraCalls == 2
\* DrawState instances built from one card list.
MaxInstances == 2
\* seededShuffle / filterCards calls made on one input.
MaxLibCalls == 2
\* Times the mount effect of App runs (twice when React mounts the
\* component twice, as it does in development under StrictMode).
MaxEffectRuns == 2

(***************************************************************************)
(* 32-bit integer arithmetic of JavaScript (|, ^, >>>, Math.imul, + then   *)
(* ToInt32), on words [hi |-> 0..65535, lo |-> 0..65535].                  *)
(***************************************************************************)
\* 2^16: a word is hi * Half + lo.
Half == 65536

W(hi, lo) == [hi |-> hi, lo |-> lo]

Pow2(n) == 2 ^ n

\* a ^ b and a | b of 16-bit numbers, bit by bit.
RECURSIVE Xor16(_, _)
Xor16(a, b) ==
  IF a = 0 /\ b = 0 THEN 0
  ELSE (((a % 2) + (b % 2)) % 2) + 2 * Xor16(a \div 2, b \div 2)

RECURSIVE Or16(_, _)
Or16(a, b) ==
  IF a = 0 /\ b = 0 THEN 0
  ELSE (IF a % 2 = 1 \/ b % 2 = 1 THEN 1 ELSE 0) + 2 * Or16(a \div 2, b \div 2)

\* a ^ b
XorW(a, b) == W(Xor16(a.hi, b.hi), Xor16(a.lo, b.lo))

\* a | k for a small constant k (k < 2^16)
OrSmallW(k, a) == W(a.hi, Or16(a.lo, k))

\* a >>> n, for 0 < n < 16
ShrW(a, n) ==
  W(a.hi \div Pow2(n), (a.lo \div Pow2(n)) + ((a.hi % Pow2(n)) * Pow2(16 - n)))

\* (a + b) | 0 : the sum wrapped to 32 bits
AddW(a, b) ==
  LET lo == a.lo + b.lo
  IN  W((a.hi + b.hi + (lo \div Half)) % Half, lo % Half)

\* The full 32-bit product of two 16-bit numbers, as a word.
Mul16(x, y) ==
  LET p0 == x * (y % 256)
      p1 == x * (y \div 256)
      lo == p0 + ((p1 % 256) * 256)
  IN  W(((p1 \div 256) + (lo \div Half)) % Half, lo % Half)

\* Math.imul(a, b): the low 32 bits of the product.
ImulW(a, b) ==
  LET P     == Mul16(a.lo, b.lo)
      cross == (Mul16(a.hi, b.lo).lo + Mul16(a.lo, b.hi).lo) % Half
  IN  W((P.hi + cross) % Half, P.lo)

\* -a wrapped to 32 bits (two's complement).
NegW(a) ==
  IF a.hi = 0 /\ a.lo = 0 THEN a
  ELSE IF a.lo = 0 THEN W(Half - a.hi, 0)
  ELSE W(Half - 1 - a.hi, Half - a.lo)

(***************************************************************************)
(* Seeds are JavaScript numbers: sign, magnitude top * 2^32 + hi * 2^16 +  *)
(* lo, and a fractional part counted in halves (0 or 1, i.e. .0 or .5).    *)
(***************************************************************************)
Num(neg, top, hi, lo, half) ==
  [neg |-> neg, top |-> top, hi |-> hi, lo |-> lo, half |-> half]

\* A coercion that rounds a fraction away from zero before it wraps.
ToInt32Rounds(sd) ==
  LET m == AddW(W(sd.hi, sd.lo), W(0, sd.half))
  IN  IF sd.neg THEN NegW(m) ELSE m

\* seed | 0 : ToInt32 drops the fraction (toward zero) and wraps modulo 2^32.
ToInt32(sd) ==
  IF sd.neg THEN NegW(W(sd.hi, sd.lo)) ELSE W(sd.hi, sd.lo)

\* 0x6d2b79f5, the additive increment of mulberry32
Increment == W(27947, 31221)

\* let s = seed | 0
Mulberry32(sd) == ToInt32(sd)

\* return ((t ^ (t >>> 14)) >>> 0) / 4294967296: the 32-bit numerator
RngOut(t) == XorW(t, ShrW(t, 14))

\* t = (t + Math.imul(t ^ (t >>> 7), 61 | t)) ^ t
RngMix2(t) == XorW(AddW(t, ImulW(XorW(t, ShrW(t, 7)), OrSmallW(61, t))), t)

\* let t = Math.imul(s ^ (s >>> 15), 1 | s)
RngMix1(s) == ImulW(XorW(s, ShrW(s, 15)), OrSmallW(1, s))

\* The body of the closure, for s already advanced.
RngBody(s) == [s |-> s, u |-> RngOut(RngMix2(RngMix1(s)))]

\* One call of the closure mulberry32 returns: the new s and the 32-bit
\* numerator u of the value u / 4294967296 it returns.
RngStep(s) == RngBody(AddW(s, Increment))

\* Math.floor((u / 4294967296) * n) for a small n: the product is exact in a
\* double, so this is floor(u * n / 2^32).
FloorMul(u, n) == ((u.hi * n) + ((u.lo * n) \div Half)) \div Half

(***************************************************************************)
(* Cards, filters and the sample inputs.                                   *)
(***************************************************************************)
\* An optional attribute that is absent, and one that is null.
Undefined == "<undefined>"
Null == "<null>"

\* JavaScript truthiness of a string | null | undefined value.
Truthy(v) == v \notin {Undefined, Null, ""}

MkCard(id, color, symbol) == [id |-> id, color |-> color, symbol |-> symbol]

\* The value drawNext returns when there is no card.
NullCard == [null |-> TRUE]

\* Cards with the attribute shapes the Card type allows.
CardPool ==
  { MkCard("1", "red", "heart"),
    MkCard("2", "blue", "star"),
    MkCard("3", "red", Undefined),
    MkCard("4", Null, "heart"),
    MkCard("5", Undefined, Null) }

Range(f) == { f[i] : i \in DOMAIN f }

\* Sequences of length n over S without repetition.
RECURSIVE Arrangements(_, _)
Arrangements(S, n) ==
  IF n = 0 THEN { <<>> }
  ELSE UNION { { Append(a, x) : x \in S \ Range(a) } : a \in Arrangements(S, n - 1) }

\* Card lists, unique by id.
CardLists == UNION { Arrangements(CardPool, n) : n \in 0..MaxCards }

Digit(i) == <<"0", "1", "2", "3", "4", "5", "6", "7", "8", "9">>[i + 1]

\* makeCards(n) of the tests: n cards card-0 .. card-(n-1) without attributes.
MakeCards(n) == [i \in 1..n |-> MkCard(Digit((i - 1) % 10), Undefined, Undefined)]

\* Seeds: the integers the tests use, and numbers that are not 32-bit
\* integers (negative, fractional, beyond 2^32, and a Math.random() * 2 ** 32).
Seeds ==
  { Num(FALSE, 0, 0, 42, 0),
    Num(FALSE, 0, 0, 12345, 0),
    Num(FALSE, 0, 0, 99, 0),
    Num(TRUE, 0, 0, 1, 0),
    Num(FALSE, 0, 0, 42, 1),
    Num(FALSE, 1, 0, 42, 0),
    Num(FALSE, 0, 45776, 24064, 1),
    Num(TRUE, 0, 0, 42, 1) }

\* The seed as a caller would make it a signed 32-bit integer beforehand:
\* the fraction cut off toward zero, the multiples of 2^32 taken away, and
\* the rest brought into -2^31 .. 2^31 - 1.
Int32Of(sd) ==
  LET lowHalf == sd.hi < 32768
      zero    == sd.hi = 0 /\ sd.lo = 0
      chi     == Half - sd.hi - (IF sd.lo = 0 THEN 0 ELSE 1)
      clo     == (Half - sd.lo) % Half
  IN  IF zero THEN Num(FALSE, 0, 0, 0, 0)
      ELSE IF ~sd.neg
      THEN IF lowHalf THEN Num(FALSE, 0, sd.hi, sd.lo, 0) ELSE Num(TRUE, 0, chi, clo, 0)
      ELSE IF lowHalf \/ (sd.hi = 32768 /\ sd.lo = 0)
           THEN Num(TRUE, 0, sd.hi, sd.lo, 0)
           ELSE Num(FALSE, 0, chi, clo, 0)

\* The generator states the sample seeds lead to: s advances by Increment
\* with every call.
Advance(s, k) == AddW(s, ImulW(W(0, k), Increment))

\* RngStep tabulated on those states, so that it is computed once.
RngTable ==
  { <<s, RngStep(s)>> :
      s \in { Advance(Mulberry32(sd), k) :
                 sd \in Seeds \cup { Int32Of(x) : x \in Seeds },
                 k \in 0..(MaxCards + MaxDeck) } }

\* rng(), looked up in the table.
RngNext(s) == (CHOOSE p \in RngTable : p[1] = s)[2]

\* What Math.random() * 2 ** 32 can be: a number in [0, 2^32).
RandomSeeds == { n \in Seeds : ~n.neg /\ n.top = 0 }

\* The filter argument: not given, or an object with optional criteria.
MkFilter(color, symbol) == [given |-> TRUE, color |-> color, symbol |-> symbol]

NoFilter == [given |-> FALSE]

Filters ==
  { NoFilter } \cup
  { MkFilter(c, s) : c \in {Undefined, "", "red", "blue"},
                     s \in {Undefined, "", "heart"} }

(***************************************************************************)
(* The library: src/src/lib/i18n.ts.  A call takes the heap and returns    *)
(* the heap after it together with what it returns.                        *)
(***************************************************************************)
\* A swap that loses an element: arr[i] = arr[j] without the exchange.
SwapOverwrites(arr, a, b) == [arr EXCEPT ![a] = arr[b]]

Swap(arr, a, b) == [arr EXCEPT ![a] = arr[b], ![b] = arr[a]]

\* A loop that goes on to i = 0 and swaps the first element with itself.
RECURSIVE ShuffleLoopToZero(_, _, _, _)
ShuffleLoopToZero(arr, s, i, steps) ==
  IF i >= 0 /\ Len(arr) > 0
  THEN LET r == RngNext(s)
           j == FloorMul(r.u, i + 1)
       IN  ShuffleLoopToZero(Swap(arr, i + 1, j + 1), r.s, i - 1, Append(steps, <<i, j>>))
  ELSE [arr |-> arr, steps |-> steps]

\* The for loop of seededShuffle over the 0-based index i: arr is the array,
\* s the state of the generator, steps the <<i, j>> of the swaps made so far.
RECURSIVE ShuffleLoop(_, _, _, _)
ShuffleLoop(arr, s, i, steps) ==
  IF i > 0
  THEN LET r == RngNext(s)
           j == FloorMul(r.u, i + 1)
       IN  ShuffleLoop(Swap(arr, i + 1, j + 1), r.s, i - 1, Append(steps, <<i, j>>))
  ELSE [arr |-> arr, steps |-> steps]

SeededShuffleInPlace(h, items, sd) ==
  LET done == ShuffleLoop(h[items], Mulberry32(sd), Len(h[items]) - 1, <<>>)
  IN  [heap |-> [h EXCEPT ![items] = done.arr], ref |-> items, steps |-> done.steps]

\* seededShuffle(items, seed): arr = [...items] is a new array.
SeededShuffle(h, items, sd) ==
  LET done == ShuffleLoop(h[items], Mulberry32(sd), Len(h[items]) - 1, <<>>)
  IN  [heap |-> Append(h, done.arr), ref |-> Len(h) + 1, steps |-> done.steps]

\* A callback that forgets the color criterion.
KeepsIgnoringColor(flt, card) ==
  ~(Truthy(flt.symbol) /\ card.symbol # flt.symbol)

\* A callback that lets a card without the attribute pass the criterion.
KeepsUnclassified(flt, card) ==
  /\ ~(Truthy(flt.color) /\ Truthy(card.color) /\ card.color # flt.color)
  /\ ~(Truthy(flt.symbol) /\ Truthy(card.symbol) /\ card.symbol # flt.symbol)

\* A callback that is content with one of two criteria.
KeepsEither(flt, card) ==
  IF Truthy(flt.color) /\ Truthy(flt.symbol)
  THEN card.color = flt.color \/ card.symbol = flt.symbol
  ELSE /\ ~(Truthy(flt.color) /\ card.color # flt.color)
       /\ ~(Truthy(flt.symbol) /\ card.symbol # flt.symbol)

\* A callback that drops the cards without any classification.
KeepsClassifiedOnly(flt, card) ==
  /\ Truthy(card.color) \/ Truthy(card.symbol)
  /\ ~(Truthy(flt.color) /\ card.color # flt.color)
  /\ ~(Truthy(flt.symbol) /\ card.symbol # flt.symbol)

\* The callback of cards.filter in filterCards.
Keeps(flt, card) ==
  /\ ~(Truthy(flt.color) /\ card.color # flt.color)
  /\ ~(Truthy(flt.symbol) /\ card.symbol # flt.symbol)

\* filterCards(cards, filter): the argument itself without a filter, else
\* the new array Array.prototype.filter builds.
FilterCards(h, cards, flt) ==
  IF ~flt.given THEN [heap |-> h, ref |-> cards]
  ELSE LET keep(card) == Keeps(flt, card)
       IN  [heap |-> Append(h, SelectSeq(h[cards], keep)), ref |-> Len(h) + 1]

\* A remaining computed once, when the object is built.
RemainingMemoized(o) == IF o.accessors THEN o.total ELSE o.remaining

\* The getter remaining of the object createDrawState returns, or the data
\* property of that name of a copy.
Remaining(o) == IF o.accessors THEN o.total - o.index ELSE o.remaining

\* An exhausted that waits for the cursor to pass the end.
ExhaustedPastEnd(o) == IF o.accessors THEN o.index > o.total ELSE o.exhausted

\* The getter exhausted, or the data property of that name of a copy.
Exhausted(o) == IF o.accessors THEN o.index >= o.total ELSE o.exhausted

\* createDrawState(cards, seed): the object literal with its two getters.
CreateDrawState(h, cards, sd) ==
  LET sh == SeededShuffle(h, cards, sd)
  IN  [heap |-> sh.heap,
       obj  |-> [order |-> sh.ref, index |-> 0, total |-> Len(sh.heap[sh.ref]),
                 accessors |-> TRUE]]

\* A drawNext that returns the card and leaves the cursor where it is.
DrawNextStuck(h, state) ==
  IF state.index >= state.total
  THEN [obj |-> state, ret |-> NullCard]
  ELSE [obj |-> state, ret |-> h[state.order][state.index + 1]]

\* A drawNext that starts over once the cards are used up.
DrawNextWraps(h, state) ==
  IF state.index >= state.total
  THEN [obj |-> [state EXCEPT !.index = 0], ret |-> NullCard]
  ELSE [obj |-> [state EXCEPT !.index = state.index + 1],
        ret |-> h[state.order][state.index + 1]]

\* A drawNext that reads the card after the increment.
DrawNextSkips(h, state) ==
  IF state.index >= state.total
  THEN [obj |-> state, ret |-> NullCard]
  ELSE [obj |-> [state EXCEPT !.index = state.index + 1],
        ret |-> IF state.index + 1 < state.total
                THEN h[state.order][state.index + 2] ELSE NullCard]

\* A drawNext that moves the cursor on every call.
DrawNextOverruns(h, state) ==
  IF state.index >= state.total
  THEN [obj |-> [state EXCEPT !.index = state.index + 1], ret |-> NullCard]
  ELSE [obj |-> [state EXCEPT !.index = state.index + 1],
        ret |-> h[state.order][state.index + 1]]

\* drawNext(state): the state object after the call and the value returned.
DrawNext(h, state) ==
  IF state.index >= state.total
  THEN [obj |-> state, ret |-> NullCard]
  ELSE [obj |-> [state EXCEPT !.index = state.index + 1],
        ret |-> h[state.order][state.index + 1]]

\* { ...drawState }: the own enumerable properties copied as data
\* properties; a getter is read once and its value stored.
Spread(o) ==
  [order |-> o.order, index |-> o.index, total |-> o.total, accessors |-> FALSE,
   remaining |-> Remaining(o), exhausted |-> Exhausted(o)]

(***************************************************************************)
(* State.                                                                  *)
(*   heap        the arrays; heap[1] is the caller's card list             *)
(*   objs        the DrawState objects                                     *)
(*   seed        the seed the caller passes                                *)
(*   rets        rets[i]: what the drawNext calls on objs[i] returned      *)
(*   filter      the filter argument / the active filter of CardDraw       *)
(*   calls       the seededShuffle and filterCards calls made so far       *)
(*   deck        colors and symbols of the deck CardDraw shows             *)
(*   currentCard the card CardDraw displays                                *)
(*   lang, index, path, selectedDeck, loading, error                       *)
(*               the state of App                                          *)
(*   inflight    the fetch requests of App that have not completed         *)
(***************************************************************************)
VARIABLES heap, objs, seed, rets, filter, calls, deck, currentCard,
          lang, index, path, selectedDeck, loading, error, inflight

vars == <<heap, objs, seed, rets, filter, calls, deck, currentCard,
          lang, index, path, selectedDeck, loading, error, inflight>>

\* The state of the engine and of CardDraw
engineVars == <<heap, objs, seed, rets, filter, calls, deck, currentCard>>

\* The state of App and its requests
appVars == <<lang, index, path, selectedDeck, loading, error, inflight>>

\* A value that may be null: None, or Some(v).
None == <<>>
Some(v) == <<v>>

\* The useState initial values of App, with no request made.
AppNotMounted ==
  /\ lang = "en"
  /\ index = None
  /\ path = <<>>
  /\ selectedDeck = None
  /\ loading = TRUE
  /\ error = Null
  /\ inflight = <<>>

\* The caller's card list.
CardsRef == 1

NoDeck == [colors |-> <<>>, symbols |-> <<>>]

(***************************************************************************)
(* SpecDraw: DrawState instances built by createDrawState from one card    *)
(* list and drawn from by drawNext, in any interleaving.                   *)
(***************************************************************************)
InitDraw ==
  /\ AppNotMounted
  /\ \E n \in 0..MaxDeck : heap = <<MakeCards(n)>>
  /\ seed \in Seeds
  /\ objs = <<>>
  /\ rets = <<>>
  /\ filter = NoFilter
  /\ calls = <<>>
  /\ deck = NoDeck
  /\ currentCard = NullCard

\* const state = createDrawState(cards, seed)
NewDrawState ==
  /\ Len(objs) < MaxInstances
  /\ LET c == CreateDrawState(heap, CardsRef, seed)
     IN  /\ heap' = c.heap
         /\ objs' = Append(objs, c.obj)
         /\ rets' = Append(rets, <<>>)
  /\ UNCHANGED <<seed, filter, calls, deck, currentCard>>
  /\ UNCHANGED appVars

\* drawNext(state) on the i-th instance
CallDrawNext(i) ==
  /\ Len(rets[i]) < objs[i].total + MaxExtraCalls
  /\ LET d == DrawNext(heap, objs[i])
     IN  /\ objs' = [objs EXCEPT ![i] = d.obj]
         /\ rets' = [rets EXCEPT ![i] = Append(@, d.ret)]
  /\ UNCHANGED <<heap, seed, filter, calls, deck, currentCard>>
  /\ UNCHANGED appVars

NextDraw == NewDrawState \/ \E i \in DOMAIN objs : CallDrawNext(i)

SpecDraw == InitDraw /\ [][NextDraw]_vars

(***************************************************************************)
(* SpecLib: seededShuffle and filterCards called, in any order, on one     *)
(* card list with one seed and one filter argument.  A call is recorded    *)
(* with the input as it was before the call and the array it returned as   *)
(* it was at the return.                                                   *)
(***************************************************************************)
\* Inputs of the library: the card lists, and lists that hold a card twice
\* (seededShuffle takes any sequence).
LibInputs == CardLists \cup { <<x, y, x>> : x \in CardPool, y \in CardPool }

InitLib ==
  /\ AppNotMounted
  /\ \E cards \in LibInputs : heap = <<cards>>
  /\ seed \in Seeds
  /\ filter \in Filters
  /\ calls = <<>>
  /\ objs = <<>>
  /\ rets = <<>>
  /\ deck = NoDeck
  /\ currentCard = NullCard

\* seededShuffle(cards, seed)
CallSeededShuffle ==
  /\ Len(calls) < MaxLibCalls
  /\ LET r == SeededShuffle(heap, CardsRef, seed)
     IN  /\ heap' = r.heap
         /\ calls' = Append(calls, [fn |-> "seededShuffle", before |-> heap[CardsRef],
                                    ref |-> r.ref, result |-> r.heap[r.ref],
                                    steps |-> r.steps, sd |-> seed])
  /\ UNCHANGED <<objs, seed, rets, filter, deck, currentCard>>
  /\ UNCHANGED appVars

\* filterCards(cards, filter)
CallFilterCards ==
  /\ Len(calls) < MaxLibCalls
  /\ LET r == FilterCards(heap, CardsRef, filter)
     IN  /\ heap' = r.heap
         /\ calls' = Append(calls, [fn |-> "filterCards", before |-> heap[CardsRef],
                                    ref |-> r.ref, result |-> r.heap[r.ref],
                                    steps |-> <<>>])
  /\ UNCHANGED <<objs, seed, rets, filter, deck, currentCard>>
  /\ UNCHANGED appVars

NextLib == CallSeededShuffle \/ CallFilterCards

SpecLib == InitLib /\ [][NextLib]_vars

(***************************************************************************)
(* SpecSeed: seededShuffle called on one card list with a seed as it is    *)
(* and with the same seed made a signed 32-bit integer by the caller.      *)
(***************************************************************************)
\* seededShuffle(cards, the seed as a 32-bit integer)
CallSeededShuffleInt32 ==
  /\ Len(calls) < MaxLibCalls
  /\ LET r == SeededShuffle(heap, CardsRef, Int32Of(seed))
     IN  /\ heap' = r.heap
         /\ calls' = Append(calls, [fn |-> "seededShuffle", before |-> heap[CardsRef],
                                    ref |-> r.ref, result |-> r.heap[r.ref],
                                    steps |-> r.steps, sd |-> Int32Of(seed)])
  /\ UNCHANGED <<objs, seed, rets, filter, deck, currentCard>>
  /\ UNCHANGED appVars

NextSeed == CallSeededShuffle \/ CallSeededShuffleInt32

SpecSeed == InitLib /\ [][NextSeed]_vars

(***************************************************************************)
(* SpecView: the CardDraw component.  heap[1] is deck.cards, heap[2] the   *)
(* memoized filtered list, heap[3] the order of the DrawState the          *)
(* component holds, which is objs[1]; arrays and objects the component no  *)
(* longer references are dropped.                                          *)
(***************************************************************************)
FilteredRef == 2
OrderRef == 3

\* The DrawState of the component
DrawStateOf(os) == os[1]

\* const hasColors = deck.colors && deck.colors.length > 0
HasColors == Len(deck.colors) > 0
HasSymbols == Len(deck.symbols) > 0

\* The filters the filter buttons pass to handleFilterChange.
ButtonFilters ==
  IF HasColors \/ HasSymbols
  THEN { MkFilter(Undefined, Undefined) }
       \cup { MkFilter(deck.colors[i], Undefined) : i \in DOMAIN deck.colors }
       \cup { MkFilter(Undefined, deck.symbols[i]) : i \in DOMAIN deck.symbols }
  ELSE {}

\* A rebuild that shuffles all the cards of the deck, whatever the filter.
RebuildUnfiltered(cards, f, sd) ==
  LET c == CreateDrawState(<<cards, cards>>, FilteredRef, sd)
  IN  [heap |-> <<cards, cards, c.heap[c.obj.order]>>,
       objs |-> <<[c.obj EXCEPT !.order = OrderRef]>>]

\* createDrawState(filterCards(deck.cards, f), sd), as the component's heap
\* and objects after it.
Rebuild(cards, f, sd) ==
  LET fl == FilterCards(<<cards>>, CardsRef, f)
      c  == CreateDrawState(fl.heap, fl.ref, sd)
  IN  [heap |-> <<cards, c.heap[fl.ref], c.heap[c.obj.order]>>,
       objs |-> <<[c.obj EXCEPT !.order = OrderRef]>>]

InitView ==
  /\ AppNotMounted
  /\ seed \in RandomSeeds
  /\ filter = MkFilter(Undefined, Undefined)
  /\ deck \in [colors : {<<>>, <<"red", "blue">>}, symbols : {<<>>, <<"heart", "star">>}]
  /\ \E cards \in CardLists :
       /\ heap = Rebuild(cards, filter, seed).heap
       /\ objs = Rebuild(cards, filter, seed).objs
  /\ currentCard = NullCard
  /\ rets = <<>>
  /\ calls = <<>>

HandleFilterChange ==
  \E newFilter \in ButtonFilters, sd \in RandomSeeds :
    /\ filter' = newFilter
    /\ heap' = Rebuild(heap[CardsRef], newFilter, sd).heap
    /\ objs' = Rebuild(heap[CardsRef], newFilter, sd).objs
    /\ currentCard' = NullCard
    /\ UNCHANGED <<seed, rets, calls, deck>>
    /\ UNCHANGED appVars

\* The Draw button is disabled while drawState.exhausted reads true.
HandleDraw ==
  /\ ~Exhausted(DrawStateOf(objs))
  /\ LET d == DrawNext(heap, DrawStateOf(objs))
     IN  /\ currentCard' = d.ret
         /\ objs' = <<Spread(d.obj)>>
  /\ UNCHANGED <<heap, seed, rets, filter, calls, deck>>
  /\ UNCHANGED appVars

NextView == HandleFilterChange \/ HandleDraw

SpecView == InitView /\ [][NextView]_vars

(***************************************************************************)
(* SpecApp: the App component.  A fetch is a request in `inflight` until   *)
(* its promise chain settles, which runs the .then or the .catch callback. *)
(* The handlers are those of the components App renders, so a handler can  *)
(* run only while its component is rendered.                               *)
(***************************************************************************)
MkNode(id, is_leaf, data_file, children) ==
  [id |-> id, is_leaf |-> is_leaf, data_file |-> data_file, children |-> children]

\* Nodes of an index: leaves with a data file, a leaf without one, a group
\* and a group without sub-decks.
LeafA == MkNode("a", TRUE, "a.json", None)
LeafB == MkNode("b", TRUE, "b.json", None)
LeafNoFile == MkNode("n", TRUE, Null, None)
Group == MkNode("g", FALSE, Null, Some(<<LeafA, LeafNoFile>>))
EmptyGroup == MkNode("e", FALSE, Null, Some(<<>>))

\* What index.json can hold: no decks (as in the tests), or a tree.
IndexSamples == { [decks |-> <<>>], [decks |-> <<Group, LeafB, EmptyGroup>>] }

\* What a deck file can hold.
DeckSamples == { [id |-> "a", cards |-> <<>>],
                 [id |-> "b", cards |-> <<MkCard("1", "red", "heart")>>] }

\* err.message of a failed index fetch: the response was not ok, or fetch
\* or r.json() rejected.
IndexFailures == { "Failed to load index: 404", "Failed to fetch" }

\* err.message of a failed deck fetch
DeckFailures == { "Failed to load deck: 500", "Unexpected end of JSON input" }

IndexRequest == [kind |-> "index", file |-> "index.json"]
DeckRequest(file) == [kind |-> "deck", file |-> file]

\* The sequence without its i-th element
Remove(seq, i) == SubSeq(seq, 1, i - 1) \o SubSeq(seq, i + 1, Len(seq))

\* {loading && ...}
ShowsLoading == loading

\* {error && ...}
ShowsError == Truthy(error)

\* A DeckPicker that an error does not hide.
ShowsDeckPickerDespiteError == ~loading /\ selectedDeck = None /\ index # None

\* {!loading && !error && !selectedDeck && index && <DeckPicker ... />}
ShowsDeckPicker == ~loading /\ ~Truthy(error) /\ selectedDeck = None /\ index # None

\* {!loading && !error && selectedDeck && <CardDraw ... />}
ShowsCardDraw == ~loading /\ ~Truthy(error) /\ selectedDeck # None

\* const items = current?.children ?? decks, of DeckPicker
Items ==
  IF Len(path) > 0 /\ path[Len(path)].children # None
  THEN path[Len(path)].children[1]
  ELSE index[1].decks

\* The state after the first render: the mount effect has requested the
\* index, once for every run.
InitApp ==
  /\ lang = "en"
  /\ index = None
  /\ path = <<>>
  /\ selectedDeck = None
  /\ loading = TRUE
  /\ error = Null
  /\ \E n \in 1..MaxEffectRuns : inflight = [k \in 1..n |-> IndexRequest]
  /\ heap = <<>>
  /\ objs = <<>>
  /\ seed = Num(FALSE, 0, 0, 42, 0)
  /\ rets = <<>>
  /\ filter = NoFilter
  /\ calls = <<>>
  /\ deck = NoDeck
  /\ currentCard = NullCard

\* .then((data: DeckTreeIndex) => { setIndex(data); setLoading(false) })
IndexFetchFulfils ==
  \E i \in DOMAIN inflight, data \in IndexSamples :
    /\ inflight[i].kind = "index"
    /\ inflight' = Remove(inflight, i)
    /\ index' = Some(data)
    /\ loading' = FALSE
    /\ UNCHANGED <<lang, path, selectedDeck, error>>
    /\ UNCHANGED engineVars

\* .catch((err) => { setError(err.message); setLoading(false) })
IndexFetchFails ==
  \E i \in DOMAIN inflight, message \in IndexFailures :
    /\ inflight[i].kind = "index"
    /\ inflight' = Remove(inflight, i)
    /\ error' = message
    /\ loading' = FALSE
    /\ UNCHANGED <<lang, index, path, selectedDeck>>
    /\ UNCHANGED engineVars

\* const toggleLang = () => setLang((l) => (l === 'en' ? 'es' : 'en'))
ToggleLang ==
  /\ lang' = IF lang = "en" THEN "es" ELSE "en"
  /\ UNCHANGED <<index, path, selectedDeck, loading, error, inflight>>
  /\ UNCHANGED engineVars

\* handleSelectNode(node), from a button of DeckPicker
HandleSelectNode ==
  /\ ShowsDeckPicker
  /\ \E k \in DOMAIN Items :
       LET node == Items[k]
       IN  IF node.is_leaf /\ Truthy(node.data_file)
           THEN /\ loading' = TRUE
                /\ inflight' = Append(inflight, DeckRequest(node.data_file))
                /\ UNCHANGED path
           ELSE IF node.children # None
           THEN /\ path' = Append(path, node)
                /\ UNCHANGED <<loading, inflight>>
           ELSE UNCHANGED <<path, loading, inflight>>
  /\ UNCHANGED <<lang, index, selectedDeck, error>>
  /\ UNCHANGED engineVars

\* .then((data: LeafDeckData) => { setSelectedDeck(data); setLoading(false) })
DeckFetchFulfils ==
  \E i \in DOMAIN inflight, data \in DeckSamples :
    /\ inflight[i].kind = "deck"
    /\ inflight' = Remove(inflight, i)
    /\ selectedDeck' = Some(data)
    /\ loading' = FALSE
    /\ UNCHANGED <<lang, index, path, error>>
    /\ UNCHANGED engineVars

\* .catch((err) => { setError(err.message); setLoading(false) })
DeckFetchFails ==
  \E i \in DOMAIN inflight, message \in DeckFailures :
    /\ inflight[i].kind = "deck"
    /\ inflight' = Remove(inflight, i)
    /\ error' = message
    /\ loading' = FALSE
    /\ UNCHANGED <<lang, index, path, selectedDeck>>
    /\ UNCHANGED engineVars

\* handleBack, from the back button of DeckPicker (shown with a non-empty
\* path) or of CardDraw
HandleBack ==
  /\ (ShowsDeckPicker /\ Len(path) > 0) \/ ShowsCardDraw
  /\ IF selectedDeck # None
     THEN selectedDeck' = None /\ UNCHANGED path
     ELSE path' = SubSeq(path, 1, Len(path) - 1) /\ UNCHANGED selectedDeck
  /\ UNCHANGED <<lang, index, loading, error, inflight>>
  /\ UNCHANGED engineVars

NextApp ==
  \/ IndexFetchFulfils
  \/ IndexFetchFails
  \/ ToggleLang
  \/ HandleSelectNode
  \/ DeckFetchFulfils
  \/ DeckFetchFails
  \/ HandleBack

SpecApp == InitApp /\ [][NextApp]_vars

(***************************************************************************)
(* Properties of createDrawState / drawNext (SpecDraw).                    *)
(***************************************************************************)
\* The cards of order, oldest first.
OrderOf(i) == heap[objs[i].order]

\* The successful draws made on instance i.
Draws(i) == Cardinality({ k \in DOMAIN rets[i] : rets[i][k] # NullCard })

\* The drawNext call of this step was made on instance i.
Called(i) == i \in DOMAIN rets /\ rets'[i] # rets[i]

\* C1: the calls of drawNext on a state built by createDrawState return
\* order[0], order[1], ..., order[N-1] in that order, each card of the list
\* once (N distinct ids, and all the cards after N calls), and null from the
\* (N+1)-th call on.
C1_DrawsEachCardOnceInOrder ==
  \A i \in DOMAIN objs :
    LET N == Len(heap[CardsRef])
    IN  /\ objs[i].total = N
        /\ \A k \in DOMAIN rets[i] :
             rets[i][k] = IF k <= N THEN OrderOf(i)[k] ELSE NullCard
        /\ \A k1, k2 \in DOMAIN rets[i] :
             (k1 <= N /\ k2 <= N /\ k1 # k2) => rets[i][k1].id # rets[i][k2].id
        /\ Len(rets[i]) >= N
             => { rets[i][k] : k \in 1..N } = Range(heap[CardsRef])

\* A state with three or more cards drawn to the end and one more call made.
C1_Witness ==
  \E i \in DOMAIN objs :
    /\ objs[i].total >= 3
    /\ Len(rets[i]) = objs[i].total + 1
    /\ rets[i][Len(rets[i])] = NullCard
    /\ OrderOf(i) # heap[CardsRef]

\* C3: after k successful draws out of N, remaining is N - k and exhausted
\* is (k = N), on the object createDrawState returned.
C3_RemainingAndExhaustedAfterDraws ==
  \A i \in DOMAIN objs :
    LET N == Len(heap[CardsRef])
        k == Draws(i)
    IN  /\ k <= N
        /\ Remaining(objs[i]) = N - k
        /\ Exhausted(objs[i]) = (k = N)

\* An instance of two or more cards, all drawn, and one partly drawn.
C3_Witness ==
  /\ \E i \in DOMAIN objs :
       Len(heap[CardsRef]) >= 2 /\ Draws(i) = Len(heap[CardsRef]) /\ Exhausted(objs[i])
  /\ \E i \in DOMAIN objs :
       Draws(i) >= 1 /\ Remaining(objs[i]) >= 1 /\ ~Exhausted(objs[i])

\* C4: a drawNext call on an exhausted state returns null and leaves index,
\* order and total (and the cards of order) as they were, call after call.
C4_ExhaustedDrawReturnsNullAndKeepsState ==
  [][\A i \in DOMAIN objs :
       (Called(i) /\ objs[i].index >= objs[i].total)
         => /\ rets'[i] = Append(rets[i], NullCard)
            /\ objs'[i] = objs[i]
            /\ heap' = heap]_vars

\* Two calls made on an exhausted state that had cards.
C4_Witness ==
  \E i \in DOMAIN objs :
    /\ objs[i].total >= 1
    /\ Len(rets[i]) >= objs[i].total + 2
    /\ objs[i].index = objs[i].total

\* C5: a drawNext call on an active state returns order[index] of the index
\* before the call and adds exactly 1 to index; order and total stay.
C5_ActiveDrawReturnsCurrentAndAdvances ==
  [][\A i \in DOMAIN objs :
       (Called(i) /\ objs[i].index < objs[i].total)
         => /\ rets'[i] = Append(rets[i], OrderOf(i)[objs[i].index + 1])
            /\ objs'[i].index = objs[i].index + 1
            /\ objs'[i].order = objs[i].order
            /\ objs'[i].total = objs[i].total
            /\ heap'[objs[i].order] = heap[objs[i].order]]_vars

\* A second card drawn from an instance that still has one.
C5_Witness ==
  \E i \in DOMAIN objs :
    /\ objs[i].index = 2
    /\ objs[i].total >= 3
    /\ rets[i] = <<OrderOf(i)[1], OrderOf(i)[2]>>

\* C14: the index of every DrawState is between 0 and its total, after any
\* calls of drawNext, those made after exhaustion included.
C14_IndexWithinBounds ==
  \A i \in DOMAIN objs : 0 <= objs[i].index /\ objs[i].index <= objs[i].total

\* An instance called as often as the bound allows after its last card, and
\* an instance in the middle of its cards.
C14_Witness ==
  /\ \E i \in DOMAIN objs :
       /\ objs[i].total >= 2
       /\ Len(rets[i]) = objs[i].total + MaxExtraCalls
       /\ objs[i].index = objs[i].total
  /\ \E i \in DOMAIN objs : 0 < objs[i].index /\ objs[i].index < objs[i].total

\* C15: an instance whose exhausted is true has exhausted true after every
\* later step, whatever is called on it or on another instance.
C15_ExhaustedStaysExhausted ==
  [][\A i \in DOMAIN objs : Exhausted(objs[i]) => Exhausted(objs'[i])]_vars

\* An exhausted instance drawn from again, next to an instance built after
\* that which is not exhausted.
C15_Witness ==
  /\ Len(objs) = 2
  /\ Exhausted(objs[1]) /\ objs[1].total >= 1
  /\ rets[1][Len(rets[1])] = NullCard
  /\ ~Exhausted(objs[2])
  /\ Draws(2) >= 1

\* C16: two instances share nothing: their orders are two arrays, neither
\* the caller's list; a drawNext call on one leaves index, order and total of
\* the other, the cards of its order and what it has returned as they were;
\* and each instance returns the cards of its own order from the first on.
C16_InstancesAreIsolated ==
  [][/\ \A i, j \in DOMAIN objs' :
          /\ objs'[i].order # CardsRef
          /\ i # j => objs'[i].order # objs'[j].order
     /\ \A i, j \in DOMAIN objs :
          (Called(i) /\ j # i)
            => /\ objs'[j] = objs[j]
               /\ heap'[objs[j].order] = heap[objs[j].order]
               /\ rets'[j] = rets[j]
     /\ \A i \in DOMAIN objs' :
          /\ objs'[i].index = Draws(i)'
          /\ \A k \in 1..objs'[i].index : rets'[i][k] = heap'[objs'[i].order][k]
          /\ Range(heap'[objs'[i].order]) = Range(heap'[CardsRef])]_vars

\* Two instances of the same list and seed, drawn from in turn: the first
\* has returned all its cards, the second one card.
C16_Witness ==
  /\ Len(objs) = 2
  /\ OrderOf(1) = OrderOf(2)
  /\ objs[1].total >= 3
  /\ objs[1].index = objs[1].total
  /\ objs[2].index = 1
  /\ rets[2] = <<OrderOf(2)[1]>>

\* C18: a state built from an empty card list has total 0, index 0 and
\* exhausted true from the start, for every seed, and every drawNext call on
\* it, the first included, returns null.
C18_EmptyListIsExhaustedAtOnce ==
  \A i \in DOMAIN objs :
    Len(heap[CardsRef]) = 0 =>
      /\ objs[i].total = 0
      /\ objs[i].index = 0
      /\ Exhausted(objs[i])
      /\ Remaining(objs[i]) = 0
      /\ OrderOf(i) = <<>>
      /\ \A k \in DOMAIN rets[i] : rets[i][k] = NullCard

\* A state built from the empty list, before and after its first drawNext.
C18_Witness ==
  /\ Len(heap[CardsRef]) = 0
  /\ Len(objs) = 2
  /\ rets[1] = <<NullCard>>
  /\ rets[2] = <<>>

(***************************************************************************)
(* Properties of seededShuffle and filterCards (SpecLib).                  *)
(***************************************************************************)
ShuffleCalls == { k \in DOMAIN calls : calls[k].fn = "seededShuffle" }

FilterCalls == { k \in DOMAIN calls : calls[k].fn = "filterCards" }

\* How often x occurs in the sequence
Count(seq, x) == Cardinality({ i \in DOMAIN seq : seq[i] = x })

\* A criterion of the filter argument; none when no filter is given.
Criterion(f, attr) == IF f.given THEN f[attr] ELSE Undefined

\* C6: what seededShuffle returns is a permutation of its input: the same
\* length and every element as often as in the input.
C6_ShuffleReturnsPermutation ==
  \A k \in ShuffleCalls :
    /\ Len(calls[k].result) = Len(calls[k].before)
    /\ \A x \in Range(calls[k].before) \cup Range(calls[k].result) :
         Count(calls[k].result, x) = Count(calls[k].before, x)

\* A shuffle that moved the elements of an input holding an element twice.
C6_Witness ==
  \E k \in ShuffleCalls :
    /\ calls[k].result # calls[k].before
    /\ \E x \in Range(calls[k].before) : Count(calls[k].before, x) = 2

\* C7: two calls of seededShuffle with the same items and the same seed
\* return the same sequence.
C7_ShuffleIsDeterministic ==
  \A k1, k2 \in ShuffleCalls : calls[k1].result = calls[k2].result

\* Two calls that returned two arrays, in an order other than the input's.
C7_Witness ==
  \E k1, k2 \in ShuffleCalls :
    /\ k1 # k2
    /\ calls[k1].ref # calls[k2].ref
    /\ calls[k1].result # calls[k1].before

\* C8: after a call of seededShuffle or filterCards the caller's input holds
\* the same elements at the same positions as before the call.
C8_InputIsNotModified ==
  \A k \in DOMAIN calls : heap[CardsRef] = calls[k].before

\* A shuffle that reordered and a filter that dropped a card, both made.
C8_Witness ==
  /\ \E k \in ShuffleCalls : calls[k].result # calls[k].before
  /\ \E k \in FilterCalls : Len(calls[k].result) < Len(calls[k].before)

\* C9 as stated: a criterion that is present, whatever string it holds,
\* restricts the result to the cards whose attribute equals it, and only an
\* absent criterion imposes no restriction.
C9_PresentCriterionRestricts ==
  \A k \in FilterCalls :
    LET match(card) ==
          /\ Criterion(filter, "color") # Undefined => card.color = filter.color
          /\ Criterion(filter, "symbol") # Undefined => card.symbol = filter.symbol
    IN  /\ \A card \in Range(calls[k].result) : match(card)
        /\ \A card \in Range(calls[k].before) :
             match(card) => card \in Range(calls[k].result)

\* C9 as amended: a criterion that is a non-empty string restricts the
\* result to the cards whose attribute equals it; a criterion that is absent
\* or the empty string imposes no restriction.
C9_NonEmptyCriterionRestricts ==
  \A k \in FilterCalls :
    LET on(attr) == Criterion(filter, attr) \notin {Undefined, ""}
        match(card) ==
          /\ on("color") => card.color = filter.color
          /\ on("symbol") => card.symbol = filter.symbol
    IN  /\ \A card \in Range(calls[k].result) : match(card)
        /\ \A card \in Range(calls[k].before) :
             match(card) => card \in Range(calls[k].result)

\* An empty color criterion next to a symbol criterion that dropped a card,
\* with a classified card kept.
C9_Witness ==
  \E k \in FilterCalls :
    /\ filter.given /\ filter.color = "" /\ filter.symbol = "heart"
    /\ Len(calls[k].result) < Len(calls[k].before)
    /\ \E card \in Range(calls[k].result) : card.color = "red"

C11_BothCriteriaAreConjoined ==
  \A k \in FilterCalls :
    (filter.given /\ Truthy(filter.color) /\ Truthy(filter.symbol)) =>
      LET both(card) == card.color = filter.color /\ card.symbol = filter.symbol
          one(card)  == (card.color = filter.color) # (card.symbol = filter.symbol)
      IN  /\ calls[k].result = SelectSeq(calls[k].before, both)
          /\ \A card \in Range(calls[k].before) :
               one(card) => card \notin Range(calls[k].result)

\* A card of the color only and a card of the symbol only dropped, the card
\* that has both kept.
C11_Witness ==
  \E k \in FilterCalls :
    /\ filter.given /\ filter.color = "red" /\ filter.symbol = "heart"
    /\ calls[k].result = << MkCard("1", "red", "heart") >>
    /\ MkCard("3", "red", Undefined) \in Range(calls[k].before)
    /\ MkCard("4", Null, "heart") \in Range(calls[k].before)

\* C12: without a filter, or with a filter object that has no criterion,
\* filterCards returns the elements of the input in the same order.
C12_NoCriterionIsIdentity ==
  \A k \in FilterCalls :
    (Criterion(filter, "color") = Undefined /\ Criterion(filter, "symbol") = Undefined)
      => calls[k].result = calls[k].before

\* The empty filter object applied to three cards, one of them without any
\* classification: all three come back, in a new array.
C12_Witness ==
  \E k \in FilterCalls :
    /\ filter = MkFilter(Undefined, Undefined)
    /\ Len(calls[k].before) = 3
    /\ MkCard("5", Undefined, Null) \in Range(calls[k].before)
    /\ calls[k].result = calls[k].before
    /\ calls[k].ref # CardsRef

\* The number is an integer in -2^31 .. 2^31 - 1.
IsInt32(n) ==
  /\ n.top = 0 /\ n.half = 0
  /\ IF n.neg THEN n.hi < 32768 \/ (n.hi = 32768 /\ n.lo = 0) ELSE n.hi < 32768

\* C17 (SpecSeed): seededShuffle with a seed that is not a 32-bit integer
\* returns what it returns with that seed cut off toward zero and wrapped
\* to a signed 32-bit integer, by the same swaps.
C17_SeedIsCoercedToInt32 ==
  /\ IsInt32(Int32Of(seed))
  /\ \A k1, k2 \in ShuffleCalls :
       (calls[k1].sd = seed /\ calls[k2].sd = Int32Of(seed))
         => /\ calls[k1].result = calls[k2].result
            /\ calls[k1].steps = calls[k2].steps

\* A negative fractional seed and the integer it is cut off to, both used
\* on a list they reorder.
C17_Witness ==
  /\ seed.neg /\ seed.half = 1
  /\ \E k1, k2 \in ShuffleCalls :
       /\ calls[k1].sd = seed
       /\ calls[k2].sd = Int32Of(seed)
       /\ calls[k2].sd # seed
       /\ calls[k1].result # calls[k1].before

\* The array after the swaps of steps, made one after the other.
RECURSIVE Replay(_, _)
Replay(arr, steps) ==
  IF steps = <<>> THEN arr
  ELSE Replay([k \in DOMAIN arr |->
                 IF k = steps[1][1] + 1 THEN arr[steps[1][2] + 1]
                 ELSE IF k = steps[1][2] + 1 THEN arr[steps[1][1] + 1]
                 ELSE arr[k]],
              Tail(steps))

\* C19: seededShuffle works on an array of its own; for an input of n
\* elements it makes n - 1 swaps (none for n = 0 or n = 1, where it returns
\* the elements as they are), the k-th with i = n - k, so i goes from n - 1
\* down to 1, and with 0 <= j <= i; the result is the input after these
\* swaps.
C19_FisherYatesSteps ==
  \A c \in ShuffleCalls :
    LET n == Len(calls[c].before)
    IN  /\ calls[c].ref # CardsRef
        /\ Len(calls[c].steps) = IF n = 0 THEN 0 ELSE n - 1
        /\ \A k \in DOMAIN calls[c].steps :
             /\ calls[c].steps[k][1] = n - k
             /\ 0 <= calls[c].steps[k][2]
             /\ calls[c].steps[k][2] <= calls[c].steps[k][1]
        /\ n <= 1 => calls[c].result = calls[c].before
        /\ calls[c].result = Replay(calls[c].before, calls[c].steps)

\* A shuffle of three elements whose first swap is of the last element with
\* itself (j = i) and whose second takes the first element (j = 0).
C19_Witness ==
  \E c \in ShuffleCalls :
    /\ Len(calls[c].before) = 3
    /\ calls[c].steps[1] = <<2, 2>>
    /\ calls[c].steps[2] = <<1, 0>>

(***************************************************************************)
(* Properties of the CardDraw component (SpecView).                        *)
(***************************************************************************)
\* The card has the attributes the criteria of filter object f ask for.
Satisfies(f, card) ==
  /\ f.color # Undefined => card.color = f.color
  /\ f.symbol # Undefined => card.symbol = f.symbol

\* The cards of deck.cards that satisfy f.
Matching(f) == { card \in Range(heap[CardsRef]) : Satisfies(f, card) }

\* C13: a step that changes the active filter leaves a new DrawState built
\* from the cards of the deck that match the new filter: index is 0, total
\* is the number of matching cards, order holds exactly those cards,
\* remaining and exhausted are those of a fresh state, and no card is
\* displayed.
C13_FilterChangeStartsOver ==
  [][filter' # filter =>
       LET o == DrawStateOf(objs')
       IN  /\ o.index = 0
           /\ o.total = Cardinality(Matching(filter'))
           /\ Len(heap'[o.order]) = o.total
           /\ Range(heap'[o.order]) = Matching(filter')
           /\ Remaining(o) = o.total
           /\ Exhausted(o) = (o.total = 0)
           /\ currentCard' = NullCard
           /\ heap'[CardsRef] = heap[CardsRef]]_vars

\* The red filter active on a deck of three cards, two of them red: a fresh
\* DrawState over the two, nothing displayed.
C13_Witness ==
  /\ filter = MkFilter("red", Undefined)
  /\ Len(heap[CardsRef]) = 3
  /\ DrawStateOf(objs).total = 2
  /\ DrawStateOf(objs).index = 0
  /\ DrawStateOf(objs).accessors
  /\ currentCard = NullCard

\* C20: in every state of the component the order of its DrawState is a
\* permutation of the cards of the deck that satisfy the active filter, and
\* a card that is displayed is order[index - 1] and satisfies the active
\* filter.
C20_OrderAndCurrentCardFollowFilter ==
  LET o        == DrawStateOf(objs)
      order    == heap[o.order]
      sat(card) == Satisfies(filter, card)
      filtered == SelectSeq(heap[CardsRef], sat)
  IN  /\ Len(order) = Len(filtered)
      /\ \A card \in Range(order) \cup Range(filtered) :
           Count(order, card) = Count(filtered, card)
      /\ o.total = Len(order)
      /\ currentCard # NullCard
           => /\ o.index >= 1
              /\ currentCard = order[o.index]
              /\ Satisfies(filter, currentCard)

\* The heart filter active on a deck of three cards, two of them hearts, and
\* the second card of the order displayed.
C20_Witness ==
  /\ filter = MkFilter(Undefined, "heart")
  /\ Len(heap[CardsRef]) = 3
  /\ DrawStateOf(objs).index = 2
  /\ currentCard # NullCard
  /\ currentCard = heap[OrderRef][2]
  /\ currentCard.symbol = "heart"

(***************************************************************************)
(* Properties of the App component (SpecApp).                              *)
(***************************************************************************)
\* How many of the conditions hold
HowMany(conds) == Cardinality({ k \in DOMAIN conds : conds[k] })

\* C21: an error set by a failed index or deck fetch stays set through every
\* later step (select, back, language toggle, fetch completion); while it is
\* set neither DeckPicker nor CardDraw is rendered; and at most one of the
\* loading indicator, DeckPicker and CardDraw is rendered, before and after
\* every step.
C21_ErrorIsPermanent ==
  [][/\ Truthy(error) => Truthy(error')
     /\ Truthy(error) => ~ShowsDeckPicker /\ ~ShowsCardDraw
     /\ Truthy(error') => ~ShowsDeckPicker' /\ ~ShowsCardDraw'
     /\ HowMany(<<ShowsLoading, ShowsDeckPicker, ShowsCardDraw>>) <= 1
     /\ HowMany(<<ShowsLoading', ShowsDeckPicker', ShowsCardDraw'>>) <= 1]_vars

\* The fetch of a deck chosen inside a group has failed and the language
\* has been toggled: the index is there, nothing is loading, error is set.
C21_Witness ==
  /\ error \in DeckFailures
  /\ index # None
  /\ Len(path) = 1
  /\ ~loading
  /\ inflight = <<>>
  /\ lang = "es"

(***************************************************************************)
(* Properties of the CardDraw component (SpecView), continued.             *)
(***************************************************************************)
\* C2: the remaining and exhausted the component reads from its DrawState
\* reflect the current index: remaining = total - index and
\* exhausted = (index >= total).
C2_AccessorsReflectIndex ==
  LET o == DrawStateOf(objs)
  IN  /\ Remaining(o) = o.total - o.index
      /\ Exhausted(o) = (o.index >= o.total)
=============================================================================
